---- MODULE Spec2Model ----
(***************************************************************************)
(* Spark SQL date/time scalar functions of velox                           *)
(* (velox/functions/sparksql/DateTimeFunctions.h): week, make_date,        *)
(* last_day, date_add, date_sub, add_months and the unix_timestamp         *)
(* adapters.                                                               *)
(*                                                                         *)
(* TLC integers are 32 bits wide.  int32_t values are plain integers;      *)
(* int64_t day counts are pairs <<hi, lo>> standing for hi * 2^16 + lo     *)
(* with 0 <= lo < 2^16, so that the narrowing cast (int32_t)x and the      *)
(* comparison x == (int32_t)x are computed as the machine computes them.   *)
(***************************************************************************)
EXTENDS Integers, Sequences, FiniteSets, TLC

VARIABLES
  pc,              \* position of the date-function call sequence
  input,           \* arguments of the call
  result,          \* outcome of the first call
  result2,         \* outcome of the second call (last_day again, date_sub)
  kind,            \* which unix_timestamp adapter was constructed
  apc,             \* adapter life cycle: "constructed" | "initialized"
  format_,         \* UnixTimestampParseFunction::format_ (shared_ptr, may be null)
  sessionTzID_,    \* UnixTimestampParseFunction::sessionTzID_ (optional)
  isConstFormat_,  \* UnixTimestampParseWithFormatFunction::isConstFormat_
  invalidFormat_,  \* UnixTimestampParseWithFormatFunction::invalidFormat_
  constArg,        \* the constant format argument handed to initialize, or Null
  rows,            \* one record per row call made so far
  compiles,        \* calls of buildJodaDateTimeFormatter so far
  parses           \* calls of DateTimeFormatter::parse so far

vars == <<pc, input, result, result2, kind, apc, format_, sessionTzID_,
          isConstFormat_, invalidFormat_, constArg, rows, compiles, parses>>

dateVars == <<pc, input, result, result2>>
adapterVars == <<kind, apc, format_, sessionTzID_, isConstFormat_,
                 invalidFormat_, constArg, rows, compiles, parses>>

Null == [kind |-> "null"]

-----------------------------------------------------------------------------
(* Machine integers *)

kMaxInt32 == 2147483647
kMinInt32 == -kMaxInt32 - 1
kBase == 2 ^ 16

\* C++ integer division: truncation toward zero (b > 0), which for a negative
\* dividend is the ceiling of the quotient.
CDiv(a, b) == IF a >= 0 THEN a \div b ELSE (a + (b - 1)) \div b

\* C++ remainder: the sign of the dividend.
CMod(a, b) == a - b * CDiv(a, b)

\* int32_t -> int64_t (value preserving).
I64(n) == <<n \div kBase, n % kBase>>

\* int64_t + int32_t.
I64Add(w, n) ==
  LET lo == w[2] + (n % kBase)
  IN  <<w[1] + (n \div kBase) + (lo \div kBase), lo % kBase>>

\* (int32_t)x: keeps the low 32 bits, two's complement.
I64Cast32(w) ==
  LET h == w[1] % kBase
  IN  IF h >= 32768 THEN (h - kBase) * kBase + w[2] ELSE h * kBase + w[2]

\* int64_t era * 146097, where 146097 = 2 * 2^16 + 15025.
I64Times146097(era) ==
  LET eh == era \div kBase
      el == era % kBase
      p  == el * 15025
  IN  <<eh * 131072 + eh * 15025 + 2 * el + (p \div kBase), p % kBase>>

-----------------------------------------------------------------------------
(* Calendar helpers of velox/type and velox/functions/lib *)

kDaysInWeek == 7

isLeapYear(year) == year % 4 = 0 /\ (year % 100 # 0 \/ year % 400 = 0)

getMaxDayOfMonth(year, month) ==
  IF month = 2 THEN (IF isLeapYear(year) THEN 29 ELSE 28)
  ELSE IF month \in {4, 6, 9, 11} THEN 30 ELSE 31

\* Days of a non-leap year before the first of `month`.
kCumulativeDays(month) ==
  <<0, 31, 59, 90, 120, 151, 181, 212, 243, 273, 304, 334>>[month]

\* Civil date -> day count since 1970-01-01, as int64_t.
daysSinceEpochFromDate(year, month, day) ==
  LET era0 == year \div 400
      yoe0 == year % 400
      era  == IF month <= 2 /\ yoe0 = 0 THEN era0 - 1 ELSE era0
      yoe  == IF month <= 2 THEN (IF yoe0 = 0 THEN 399 ELSE yoe0 - 1) ELSE yoe0
      mp   == (month + 9) % 12
      doy  == (153 * mp + 2) \div 5 + day - 1
      doe  == yoe * 365 + yoe \div 4 - yoe \div 100 + doy
  IN  I64Add(I64Times146097(era), doe - 719468)

\* Day count -> std::tm (tm_year is years since 1900, tm_mon and tm_yday are
\* zero based, tm_wday is 0 for Sunday).  719468 = 4 * 146097 + 135080.
getDateTime(date) ==
  LET r    == (date % 146097) + 135080
      era  == (date \div 146097) + 4 + (r \div 146097)
      doe  == r % 146097
      yoe  == (doe - doe \div 1460 + doe \div 36524 - doe \div 146096) \div 365
      doy  == doe - (365 * yoe + yoe \div 4 - yoe \div 100)
      mp   == (5 * doy + 2) \div 153
      d    == doy - (153 * mp + 2) \div 5 + 1
      m    == IF mp < 10 THEN mp + 3 ELSE mp - 9
      y    == yoe + era * 400 + (IF m <= 2 THEN 1 ELSE 0)
  IN  [tm_year |-> y - 1900,
       tm_mon  |-> m - 1,
       tm_mday |-> d,
       tm_yday |-> kCumulativeDays(m) + d - 1
                     + (IF m > 2 /\ isLeapYear(y) THEN 1 ELSE 0),
       tm_wday |-> ((date % 7) + 4) % 7]

getYear(time) == 1900 + time.tm_year
getMonth(time) == 1 + time.tm_mon
getDay(time) == time.tm_mday

\* DATE()->toString(date): the ISO rendering, kept as its three fields.
DateToString(date) ==
  LET t == getDateTime(date) IN <<getYear(t), getMonth(t), getDay(t)>>

-----------------------------------------------------------------------------
(* Outcomes of a call *)

None == [kind |-> "none"]
Value(v) == [kind |-> "value", value |-> v]
\* VELOX_USER_CHECK_EQ failure: the message names the function and prints args.
Overflow(f, a) == [kind |-> "error", fn |-> f, args |-> a]

-----------------------------------------------------------------------------
(* WeekFunction *)

getWeek(time) ==
  LET isoWd == IF time.tm_wday # 0 THEN time.tm_wday ELSE kDaysInWeek
      \* floor(int) is the int as a double; double / 7 converted to int32_t
      \* truncates toward zero.
      week == CDiv(10 + (time.tm_yday + 1) - isoWd, kDaysInWeek)
      mondayOfWeek ==
        time.tm_yday + 1 - CMod(time.tm_wday + kDaysInWeek - 1, kDaysInWeek)
      firstMondayOfYear == 1 + CMod(mondayOfWeek + kDaysInWeek - 1, kDaysInWeek)
      daysInYear == IF isLeapYear(time.tm_year + 1900) THEN 366 ELSE 365
  IN  IF week = 0
      THEN IF \/ (isLeapYear(time.tm_year + 1900 - 1) /\ firstMondayOfYear = 2)
              \/ firstMondayOfYear = 3
              \/ firstMondayOfYear = 4
           THEN 53
           ELSE 52
      ELSE IF week = 53
      THEN IF daysInYear - mondayOfWeek < 3 THEN 1 ELSE week
      ELSE week

WeekFunction_call(date) == getWeek(getDateTime(date))

-----------------------------------------------------------------------------
(* MakeDateFunction, LastDayFunction, AddMonthsFunction *)

\* The call without its VELOX_USER_CHECK_EQ: the narrowed day count is stored.
MakeDateFunction_call_unchecked(year, month, day) ==
  Value(I64Cast32(daysSinceEpochFromDate(year, month, day)))

MakeDateFunction_call(year, month, day) ==
  LET daysSinceEpoch == daysSinceEpochFromDate(year, month, day)
  IN  IF daysSinceEpoch # I64(I64Cast32(daysSinceEpoch))
      THEN Overflow("make_date", <<year, month, day>>)
      ELSE Value(I64Cast32(daysSinceEpoch))

\* The call re-encoding the input's own day instead of the month's last day.
LastDayFunction_call_sameday(date) ==
  LET dateTime == getDateTime(date)
  IN  Value(I64Cast32(daysSinceEpochFromDate(
        getYear(dateTime), getMonth(dateTime), getDay(dateTime))))

LastDayFunction_call(date) ==
  LET dateTime == getDateTime(date)
      year     == getYear(dateTime)
      month    == getMonth(dateTime)
      day      == getMonth(dateTime)
      lastDay  == getMaxDayOfMonth(year, month)
      daysSinceEpoch == daysSinceEpochFromDate(year, month, lastDay)
  IN  IF daysSinceEpoch # I64(I64Cast32(daysSinceEpoch))
      THEN Overflow("last_day", <<year, month, day>>)
      ELSE Value(I64Cast32(daysSinceEpoch))

\* The call with the year carry computed by plain truncating division.
AddMonthsFunction_call_truncdiv(date, numMonths) ==
  LET dateTime    == getDateTime(date)
      monthAdded  == getMonth(dateTime) - 1 + numMonths
      yearOffset  == CDiv(monthAdded, 12)
      monthResult == monthAdded - yearOffset * 12 + 1
      yearResult  == getYear(dateTime) + yearOffset
      lastDayOfMonth == getMaxDayOfMonth(yearResult, monthResult)
      dayResult   == IF lastDayOfMonth < getDay(dateTime)
                     THEN lastDayOfMonth ELSE getDay(dateTime)
      daysSinceEpoch ==
        daysSinceEpochFromDate(yearResult, monthResult, dayResult)
  IN  IF daysSinceEpoch # I64(I64Cast32(daysSinceEpoch))
      THEN Overflow("add_months", <<DateToString(date), numMonths>>)
      ELSE Value(I64Cast32(daysSinceEpoch))

\* int64_t monthAdded and yearOffset stay within 32 bits for the inputs drawn.
AddMonthsFunction_call(date, numMonths) ==
  LET dateTime    == getDateTime(date)
      year        == getYear(dateTime)
      month       == getMonth(dateTime)
      day         == getDay(dateTime)
      monthAdded  == month - 1 + numMonths
      yearOffset  ==
        CDiv(IF monthAdded >= 0 THEN monthAdded ELSE monthAdded - 11, 12)
      monthResult == monthAdded - yearOffset * 12 + 1
      yearResult  == year + yearOffset
      lastDayOfMonth == getMaxDayOfMonth(yearResult, monthResult)
      dayResult   == IF lastDayOfMonth < day THEN lastDayOfMonth ELSE day
      daysSinceEpoch ==
        daysSinceEpochFromDate(yearResult, monthResult, dayResult)
  IN  IF daysSinceEpoch # I64(I64Cast32(daysSinceEpoch))
      THEN Overflow("add_months", <<DateToString(date), numMonths>>)
      ELSE Value(I64Cast32(daysSinceEpoch))

-----------------------------------------------------------------------------
(* DateAddFunction, DateSubFunction *)

\* A build with signed-overflow checking stops at the overflowing operation.
Trap == [kind |-> "trap"]

\* addToDate(date, DateTimeUnit::kDay, value): date + value in int32_t days.
\* Signed overflow is undefined: the build either wraps or traps, so the
\* operator yields the set of outcomes the call may have.
addToDate(date, value) ==
  LET sum == I64Add(I64(date), value)
  IN  IF sum = I64(I64Cast32(sum))
      THEN {Value(I64Cast32(sum))}
      ELSE {Value(I64Cast32(sum)), Trap}

DateAddFunction_call(date, value) == addToDate(date, value)

\* The call negating value directly: 0 - kMin overflows (wraps to kMin, or
\* traps).
DateSubFunction_call_negate(date, value) ==
  IF value > kMinInt32
  THEN addToDate(date, 0 - value)
  ELSE addToDate(date, kMinInt32) \cup {Trap}

DateSubFunction_call(date, value) ==
  LET kMin == kMinInt32
  IN  IF value > kMin
      THEN LET subValue == 0 - value
           IN  addToDate(date, subValue)
      ELSE LET subValue == 0 - (kMin + 1)
           IN  UNION {IF r.kind = "value" THEN addToDate(r.value, 1) ELSE {r} :
                        r \in addToDate(date, subValue)}

-----------------------------------------------------------------------------
(* Inputs drawn for the date functions *)

WeekFirstYear == 1999
WeekYears == 30
YearSpread == 1
NearSpan == 800
EdgeSpan == 45
AmSpan == 400
MonthSpan == 26
IntSpread == 3

\* The int32_t values within k of c (saturating at the ends of the range).
Around(c, k) ==
  {IF i > 0 /\ c > kMaxInt32 - i THEN kMaxInt32
   ELSE IF i < 0 /\ c < kMinInt32 - i THEN kMinInt32
   ELSE c + i : i \in -k..k}

DayOf(year, month, day) ==
  I64Cast32(daysSinceEpochFromDate(year, month, day))

WeekDates ==
  DayOf(WeekFirstYear, 1, 1) .. DayOf(WeekFirstYear + WeekYears, 12, 31)

MakeDateYears ==
  UNION {Around(c, YearSpread) :
           c \in {kMinInt32, -5877641, 0, 1900, 1970, 2000, 2020, 5881580,
                  kMaxInt32}}

MakeDateInputs ==
  {[fn |-> "make_date", year |-> y, month |-> m, day |-> d] :
     y \in MakeDateYears, m \in 1..12, d \in 1..31}

LastDayDates ==
  Around(0, NearSpan) \cup Around(kMinInt32, EdgeSpan)
    \cup Around(kMaxInt32, EdgeSpan)
    \cup Around(DayOf(1900, 2, 15), EdgeSpan)
    \cup Around(DayOf(2000, 2, 15), EdgeSpan)

LastDayInputs == {[fn |-> "last_day", date |-> d] : d \in LastDayDates}

AddMonthsDates ==
  Around(0, AmSpan) \cup Around(kMinInt32, EdgeSpan)
    \cup Around(kMaxInt32, EdgeSpan)

AddMonthsCounts ==
  Around(0, MonthSpan)
    \cup {70000000, -70000000, 71000000, -71000000,
          kMaxInt32 - 11, kMinInt32 + 11}

AddMonthsInputs ==
  {[fn |-> "add_months", date |-> d, numMonths |-> n] :
     d \in AddMonthsDates, n \in AddMonthsCounts}

Int32Samples ==
  Around(0, IntSpread) \cup Around(kMinInt32, IntSpread)
    \cup Around(kMaxInt32, IntSpread)

DateAddSubInputs ==
  {[fn |-> "date_add_sub", date |-> d, value |-> n] :
     d \in Int32Samples, n \in Int32Samples}

WeekInputs == {[fn |-> "week", date |-> d] : d \in WeekDates}

\* The unix_timestamp adapter while only date functions run.
AdapterIdle ==
  /\ kind = "none"
  /\ apc = "constructed"
  /\ format_ = Null
  /\ sessionTzID_ = Null
  /\ isConstFormat_ = FALSE
  /\ invalidFormat_ = FALSE
  /\ constArg = Null
  /\ rows = <<>>
  /\ compiles = 0
  /\ parses = 0

-----------------------------------------------------------------------------
(* Actions: one call of a date function on the drawn input *)

WeekCall ==
  /\ pc = "ready" /\ input.fn = "week"
  /\ result' = Value(WeekFunction_call(input.date))
  /\ pc' = "done"
  /\ UNCHANGED <<input, result2>> /\ UNCHANGED adapterVars

MakeDateCall ==
  /\ pc = "ready" /\ input.fn = "make_date"
  /\ result' = MakeDateFunction_call(input.year, input.month, input.day)
  /\ pc' = "done"
  /\ UNCHANGED <<input, result2>> /\ UNCHANGED adapterVars

LastDayCall ==
  /\ pc = "ready" /\ input.fn = "last_day"
  /\ result' = LastDayFunction_call(input.date)
  /\ pc' = "done"
  /\ UNCHANGED <<input, result2>> /\ UNCHANGED adapterVars

\* last_day applied to the date the first call returned.
LastDayAgain ==
  /\ pc = "done" /\ input.fn = "last_day" /\ result.kind = "value"
  /\ result2' = LastDayFunction_call(result.value)
  /\ pc' = "done2"
  /\ UNCHANGED <<input, result>> /\ UNCHANGED adapterVars

AddMonthsCall ==
  /\ pc = "ready" /\ input.fn = "add_months"
  /\ result' = AddMonthsFunction_call(input.date, input.numMonths)
  /\ pc' = "done"
  /\ UNCHANGED <<input, result2>> /\ UNCHANGED adapterVars

DateAddCall ==
  /\ pc = "ready" /\ input.fn = "date_add_sub"
  /\ result' \in DateAddFunction_call(input.date, input.value)
  /\ pc' = "done"
  /\ UNCHANGED <<input, result2>> /\ UNCHANGED adapterVars

\* date_sub applied to the date date_add returned, with the same value.
DateSubCall ==
  /\ pc = "done" /\ input.fn = "date_add_sub" /\ result.kind = "value"
  /\ result2' \in DateSubFunction_call(result.value, input.value)
  /\ pc' = "done2"
  /\ UNCHANGED <<input, result>> /\ UNCHANGED adapterVars

InitCall(inputs) ==
  /\ pc = "ready"
  /\ input \in inputs
  /\ result = None
  /\ result2 = None
  /\ AdapterIdle

InitWeek == InitCall(WeekInputs)
NextWeek == WeekCall
SpecWeek == InitWeek /\ [][NextWeek]_vars

InitDate ==
  InitCall({i \in MakeDateInputs :
              i.day <= getMaxDayOfMonth(i.year, i.month)}
           \cup LastDayInputs \cup AddMonthsInputs)
NextDate == MakeDateCall \/ LastDayCall \/ LastDayAgain \/ AddMonthsCall
SpecDate == InitDate /\ [][NextDate]_vars

InitDateAddSub == InitCall(DateAddSubInputs)
NextDateAddSub == DateAddCall \/ DateSubCall
SpecDateAddSub == InitDateAddSub /\ [][NextDateAddSub]_vars

-----------------------------------------------------------------------------
(* Joda patterns, input strings and the time zone registry *)

\* A pattern is a sequence of tokens; an input string is a sequence of
\* pieces, a run of digits (its number) or a literal.
Num(n) == [lit |-> "", num |-> n]
Lit(c) == [lit |-> c, num |-> -1]

kFieldTokens == {"yyyy", "MM", "dd", "HH", "mm", "ss"}
kLiteralTokens == {"-", ":", " "}

kDefaultFormat_ ==
  <<"yyyy", "-", "MM", "-", "dd", " ", "HH", ":", "mm", ":", "ss">>

VeloxUserError == [kind |-> "VeloxUserError"]

\* buildJodaDateTimeFormatter: throws on a token it does not support.
buildJodaDateTimeFormatter(pattern) ==
  IF \A i \in 1..Len(pattern) : pattern[i] \in kFieldTokens \cup kLiteralTokens
  THEN [kind |-> "formatter", tokens |-> pattern]
  ELSE VeloxUserError

FieldRange(token) ==
  CASE token = "yyyy" -> [lo |-> 1, hi |-> 9999]
    [] token = "MM"   -> [lo |-> 1, hi |-> 12]
    [] token = "dd"   -> [lo |-> 1, hi |-> 31]
    [] token = "HH"   -> [lo |-> 0, hi |-> 23]
    [] token = "mm"   -> [lo |-> 0, hi |-> 59]
    [] token = "ss"   -> [lo |-> 0, hi |-> 59]

PieceMatches(token, piece) ==
  IF token \in kLiteralTokens
  THEN piece.lit = token
  ELSE /\ piece.lit = ""
       /\ piece.num >= FieldRange(token).lo
       /\ piece.num <= FieldRange(token).hi

\* The value parsed for a field token, or its default when the pattern has
\* no such token.
FieldValue(tokens, pieces, token, default) ==
  IF \E i \in 1..Len(tokens) : tokens[i] = token
  THEN pieces[CHOOSE i \in 1..Len(tokens) : tokens[i] = token].num
  ELSE default

\* DateTimeFormatter::parse: the local time as seconds since the epoch and
\* no time zone (no supported token carries one); throws when the input
\* does not conform to the pattern or names a day the month does not have.
DateTimeFormatter_parse(formatter, pieces) ==
  LET tokens == formatter.tokens
      year   == FieldValue(tokens, pieces, "yyyy", 1970)
      month  == FieldValue(tokens, pieces, "MM", 1)
      day    == FieldValue(tokens, pieces, "dd", 1)
      hour   == FieldValue(tokens, pieces, "HH", 0)
      minute == FieldValue(tokens, pieces, "mm", 0)
      second == FieldValue(tokens, pieces, "ss", 0)
  IN  IF /\ Len(pieces) = Len(tokens)
         /\ \A i \in 1..Len(tokens) : PieceMatches(tokens[i], pieces[i])
         /\ day <= getMaxDayOfMonth(year, month)
      THEN [kind |-> "DateTimeResult",
            timestamp |->
              I64Cast32(daysSinceEpochFromDate(year, month, day)) * 86400
                + hour * 3600 + minute * 60 + second,
            timezoneId |-> -1]
      ELSE VeloxUserError

\* util::getTimeZoneID
getTimeZoneID(name) ==
  CASE name = "UTC" -> 0
    [] name = "Asia/Shanghai" -> 1

\* Offset from UTC, in seconds, of the zone with the given id.
OffsetSeconds(tzId) == IF tzId = 1 THEN 28800 ELSE 0

\* Timestamp::toGMT followed by getSeconds.
toGMT(timestamp, tzId) == timestamp - OffsetSeconds(tzId)

-----------------------------------------------------------------------------
(* UnixTimestampParseFunction, UnixTimestampParseWithFormatFunction *)

\* The members of an adapter instance.
Self ==
  [format_ |-> format_, sessionTzID_ |-> sessionTzID_,
   isConstFormat_ |-> isConstFormat_, invalidFormat_ |-> invalidFormat_]

setTimezone(self, config) ==
  IF config.sessionTimezone # ""
  THEN [self EXCEPT !.sessionTzID_ =
          [kind |-> "id", id |-> getTimeZoneID(config.sessionTimezone)]]
  ELSE self

getTimezoneId(self, dateTimeResult) ==
  IF dateTimeResult.timezoneId # -1
  THEN dateTimeResult.timezoneId
  ELSE IF self.sessionTzID_ = Null THEN 0 ELSE self.sessionTzID_.id

\* const arg_type<Varchar>*: a constant argument, or Null (nullptr) when the
\* argument is not constant.
Ptr(pattern) == [kind |-> "ptr", tokens |-> pattern]

\* What a row call returns to the expression evaluator.
RowNull == [kind |-> "null"]
RowValue(v) == [kind |-> "value", value |-> v]
\* A VeloxUserError leaving the call.
RowError == [kind |-> "error"]
\* A call through a null format_.
RowCrash == [kind |-> "crash"]

\* The effect of one call: the members afterwards, what was returned, the
\* patterns handed to buildJodaDateTimeFormatter and the formatters parse
\* was called on.
Effect(self, ret, built, used) ==
  [self |-> self, ret |-> ret, built |-> built, used |-> used]

UnixTimestampParseFunction_initialize(self, config) ==
  Effect(setTimezone(
           [self EXCEPT !.format_ = buildJodaDateTimeFormatter(kDefaultFormat_)],
           config),
         None, <<kDefaultFormat_>>, <<>>)

\* The call without its catch clause.
UnixTimestampParseFunction_call_nocatch(self, in) ==
  LET dateTimeResult == DateTimeFormatter_parse(self.format_, in)
  IN  IF dateTimeResult = VeloxUserError
      THEN Effect(self, RowError, <<>>, <<self.format_>>)
      ELSE Effect(self,
                  RowValue(toGMT(dateTimeResult.timestamp,
                                 getTimezoneId(self, dateTimeResult))),
                  <<>>, <<self.format_>>)

UnixTimestampParseFunction_call(self, in) ==
  IF self.format_ = Null
  THEN Effect(self, RowCrash, <<>>, <<Null>>)
  ELSE LET dateTimeResult == DateTimeFormatter_parse(self.format_, in)
       IN  IF dateTimeResult = VeloxUserError
           THEN Effect(self, RowNull, <<>>, <<self.format_>>)
           ELSE Effect(self,
                       RowValue(toGMT(dateTimeResult.timestamp,
                                      getTimezoneId(self, dateTimeResult))),
                       <<>>, <<self.format_>>)

\* initialize leaving isConstFormat_ unset.
UnixTimestampParseWithFormatFunction_initialize_noconst(self, config, format) ==
  IF format # Null
  THEN LET f == buildJodaDateTimeFormatter(format.tokens)
           s == IF f = VeloxUserError
                THEN [self EXCEPT !.invalidFormat_ = TRUE]
                ELSE [self EXCEPT !.format_ = f]
       IN  Effect(setTimezone(s, config), None, <<format.tokens>>, <<>>)
  ELSE Effect(setTimezone(self, config), None, <<>>, <<>>)

UnixTimestampParseWithFormatFunction_initialize(self, config, format) ==
  IF format # Null
  THEN LET f  == buildJodaDateTimeFormatter(format.tokens)
           s1 == IF f = VeloxUserError
                 THEN [self EXCEPT !.invalidFormat_ = TRUE]
                 ELSE [self EXCEPT !.format_ = f]
           s2 == [s1 EXCEPT !.isConstFormat_ = TRUE]
       IN  Effect(setTimezone(s2, config), None, <<format.tokens>>, <<>>)
  ELSE Effect(setTimezone(self, config), None, <<>>, <<>>)

\* Parsing through format_, inside the try block of the with-format call.
ParseInTry(self, in, built) ==
  IF self.format_ = Null
  THEN Effect(self, RowCrash, built, <<Null>>)
  ELSE LET dateTimeResult == DateTimeFormatter_parse(self.format_, in)
       IN  IF dateTimeResult = VeloxUserError
           THEN Effect(self, RowNull, built, <<self.format_>>)
           ELSE Effect(self,
                       RowValue(toGMT(dateTimeResult.timestamp,
                                      getTimezoneId(self, dateTimeResult))),
                       built, <<self.format_>>)

\* The call without the early return on invalidFormat_.
UnixTimestampParseWithFormatFunction_call_noguard(self, in, format) ==
  IF ~self.isConstFormat_
  THEN LET f == buildJodaDateTimeFormatter(format)
       IN  IF f = VeloxUserError
           THEN Effect(self, RowNull, <<format>>, <<>>)
           ELSE ParseInTry([self EXCEPT !.format_ = f], in, <<format>>)
  ELSE ParseInTry(self, in, <<>>)

\* The call remembering a failed compilation in invalidFormat_.
UnixTimestampParseWithFormatFunction_call_sticky(self, in, format) ==
  IF self.invalidFormat_
  THEN Effect(self, RowNull, <<>>, <<>>)
  ELSE IF ~self.isConstFormat_
  THEN LET f == buildJodaDateTimeFormatter(format)
       IN  IF f = VeloxUserError
           THEN Effect([self EXCEPT !.invalidFormat_ = TRUE], RowNull,
                       <<format>>, <<>>)
           ELSE ParseInTry([self EXCEPT !.format_ = f], in, <<format>>)
  ELSE ParseInTry(self, in, <<>>)

UnixTimestampParseWithFormatFunction_call(self, in, format) ==
  IF self.invalidFormat_
  THEN Effect(self, RowNull, <<>>, <<>>)
  ELSE IF ~self.isConstFormat_
  THEN LET f == buildJodaDateTimeFormatter(format)
       IN  IF f = VeloxUserError
           THEN Effect(self, RowNull, <<format>>, <<>>)
           ELSE ParseInTry([self EXCEPT !.format_ = f], in, <<format>>)
  ELSE ParseInTry(self, in, <<>>)

-----------------------------------------------------------------------------
(* The life of one adapter instance: initialize, then row calls *)

MaxRows == 3

Configs == {[sessionTimezone |-> ""], [sessionTimezone |-> "Asia/Shanghai"]}

Patterns ==
  {<<"yyyy">>, <<"yyyy", "-", "MM">>, <<"Q">>, <<"yyyy", "-", "e">>}

FormatInputs ==
  {<<Num(2021)>>, <<Num(2021), Lit("-"), Num(6)>>,
   <<Num(2021), Lit("-"), Num(13)>>, <<Lit("not-a-date")>>}

DefaultInputs ==
  {<<Num(2021), Lit("-"), Num(6), Lit("-"), Num(15), Lit(" "),
     Num(10), Lit(":"), Num(30), Lit(":"), Num(0)>>,
   <<Num(2021), Lit("-"), Num(2), Lit("-"), Num(30), Lit(" "),
     Num(10), Lit(":"), Num(30), Lit(":"), Num(0)>>,
   <<Num(1970), Lit("-"), Num(1), Lit("-"), Num(1), Lit(" "),
     Num(0), Lit(":"), Num(0), Lit(":"), Num(0)>>,
   <<Num(2021), Lit("-"), Num(6), Lit("-"), Num(15)>>,
   <<Lit("not-a-date")>>}

\* The members, counters and row log after a call with the given effect.
Apply(e) ==
  /\ format_' = e.self.format_
  /\ sessionTzID_' = e.self.sessionTzID_
  /\ isConstFormat_' = e.self.isConstFormat_
  /\ invalidFormat_' = e.self.invalidFormat_
  /\ compiles' = compiles + Len(e.built)
  /\ parses' = parses + Len(e.used)

Row(in, format, e) ==
  [input |-> in, format |-> format, ret |-> e.ret, built |-> e.built,
   used |-> e.used, invalidAfter |-> e.self.invalidFormat_]

ParseInitialize ==
  /\ kind = "parse" /\ apc = "constructed"
  /\ \E config \in Configs :
       Apply(UnixTimestampParseFunction_initialize(Self, config))
  /\ apc' = "initialized"
  /\ UNCHANGED <<kind, constArg, rows>> /\ UNCHANGED dateVars

ParseCall ==
  /\ kind = "parse" /\ apc = "initialized" /\ Len(rows) < MaxRows
  /\ \E in \in DefaultInputs :
       LET e == UnixTimestampParseFunction_call(Self, in)
       IN  Apply(e) /\ rows' = Append(rows, Row(in, <<>>, e))
  /\ UNCHANGED <<kind, apc, constArg>> /\ UNCHANGED dateVars

\* format is the constant format argument, or Null when the argument is not
\* constant.
WithFormatInitialize ==
  /\ kind = "withFormat" /\ apc = "constructed"
  /\ \E config \in Configs, format \in {Ptr(p) : p \in Patterns} \cup {Null} :
       /\ Apply(UnixTimestampParseWithFormatFunction_initialize(
                  Self, config, format))
       /\ constArg' = format
  /\ apc' = "initialized"
  /\ UNCHANGED <<kind, rows>> /\ UNCHANGED dateVars

WithFormatCall ==
  /\ kind = "withFormat" /\ apc = "initialized" /\ Len(rows) < MaxRows
  /\ \E in \in FormatInputs, format \in Patterns :
       LET e == UnixTimestampParseWithFormatFunction_call(Self, in, format)
       IN  Apply(e) /\ rows' = Append(rows, Row(in, format, e))
  /\ UNCHANGED <<kind, apc, constArg>> /\ UNCHANGED dateVars

InitUnixTimestamp ==
  /\ kind \in {"parse", "withFormat"}
  /\ apc = "constructed"
  /\ format_ = Null
  /\ sessionTzID_ = Null
  /\ isConstFormat_ = FALSE
  /\ invalidFormat_ = FALSE
  /\ constArg = Null
  /\ rows = <<>>
  /\ compiles = 0
  /\ parses = 0
  /\ pc = "idle" /\ input = None /\ result = None /\ result2 = None

NextUnixTimestamp ==
  ParseInitialize \/ ParseCall \/ WithFormatInitialize \/ WithFormatCall

SpecUnixTimestamp == InitUnixTimestamp /\ [][NextUnixTimestamp]_vars

-----------------------------------------------------------------------------
(* Properties of the date functions *)

InputFields == DateToString(input.date)

\* The day count fits int32_t.
FitsInt32(w) == w[1] >= -32768 /\ w[1] <= 32767

\* (y1, m1, d1) is not after (y2, m2, d2).
NotAfter(a, b) ==
  \/ a[1] < b[1]
  \/ a[1] = b[1] /\ a[2] < b[2]
  \/ a[1] = b[1] /\ a[2] = b[2] /\ a[3] <= b[3]

DaysInYear(year) == IF isLeapYear(year) THEN 366 ELSE 365

\* ISO-8601: a week belongs to the year its Thursday lies in, and its number
\* is the rank of that Thursday among the Thursdays of that year.
IsoWeek(time) ==
  LET isoWd    == IF time.tm_wday = 0 THEN 7 ELSE time.tm_wday
      thursday == time.tm_yday + 1 - isoWd + 4
      year     == getYear(time)
  IN  IF thursday < 1
      THEN (thursday + DaysInYear(year - 1) - 1) \div 7 + 1
      ELSE IF thursday > DaysInYear(year)
      THEN 1
      ELSE (thursday - 1) \div 7 + 1

\* C1: for every date, week returns the ISO-8601 week number of that date
\* (previous year's last week, 52 or 53, for early-January dates before
\* week 1; 1 for late-December dates in next year's week 1).
C1_WeekIsIsoWeek ==
  (pc = "done" /\ input.fn = "week")
    => result = Value(IsoWeek(getDateTime(input.date)))

\* C2: make_date fails with Overflow exactly when the day count of the
\* inputs does not fit int32_t (the date lies outside
\* -5877641-06-23 .. 5881580-07-11), and otherwise returns that day count,
\* which decodes to the given year, month and day.
C2_MakeDateOverflowExact ==
  (pc = "done" /\ input.fn = "make_date") =>
    LET ymd  == <<input.year, input.month, input.day>>
        days == daysSinceEpochFromDate(input.year, input.month, input.day)
    IN  /\ result.kind \in {"value", "error"}
        /\ result.kind = "error" <=> ~FitsInt32(days)
        /\ result.kind = "value" <=>
             (NotAfter(<<-5877641, 6, 23>>, ymd)
                /\ NotAfter(ymd, <<5881580, 7, 11>>))
        /\ result.kind = "value" =>
             (I64(result.value) = days /\ DateToString(result.value) = ymd)

C2_Witness ==
  /\ pc = "done" /\ input.fn = "make_date"
  /\ input.year = kMaxInt32 /\ input.month = 12 /\ input.day = 31
  /\ result.kind = "error"

\* C3: when add_months does not overflow, the result has month
\* ((month - 1 + numMonths) mod 12) + 1, year
\* year + floor((month - 1 + numMonths) / 12) and day
\* min(day, maxDayOfMonth(result year, result month)).
C3_AddMonthsClamps ==
  (pc = "done" /\ input.fn = "add_months" /\ result.kind = "value") =>
    LET from == InputFields
        to   == DateToString(result.value)
        monthAdded == from[2] - 1 + input.numMonths
        last == getMaxDayOfMonth(to[1], to[2])
    IN  /\ to[2] = (monthAdded % 12) + 1
        /\ to[1] = from[1] + (monthAdded \div 12)
        /\ to[3] = (IF from[3] < last THEN from[3] ELSE last)
        /\ to[3] <= last

C3_Witness ==
  /\ pc = "done" /\ input.fn = "add_months" /\ result.kind = "value"
  /\ input.numMonths < 0
  /\ InputFields[2] = 1
  /\ DateToString(result.value)[3] < InputFields[3]

\* C4: date_sub(date_add(d, n), n) = d whenever d + n is an int32_t day
\* count, also for n = INT32_MIN.
C4_DateSubUndoesDateAdd ==
  (input.fn = "date_add_sub"
     /\ FitsInt32(I64Add(I64(input.date), input.value))) =>
    /\ pc = "done" =>
         result = Value(I64Cast32(I64Add(I64(input.date), input.value)))
    /\ pc = "done2" => result2 = Value(input.date)

C4_Witness ==
  /\ pc = "done2" /\ input.fn = "date_add_sub"
  /\ input.value = kMinInt32
  /\ input.date > 0
  /\ result2 = Value(input.date)

\* C8: last_day(d) is the date with d's year and month and the day
\* maxDayOfMonth(year, month) when that date is an int32_t day count, and
\* fails with Overflow when it is not; then last_day(d) >= d and
\* last_day(last_day(d)) = last_day(d).
C8_LastDayIsMonthEnd ==
  (pc \in {"done", "done2"} /\ input.fn = "last_day") =>
    LET from == InputFields
        last == getMaxDayOfMonth(from[1], from[2])
        end  == daysSinceEpochFromDate(from[1], from[2], last)
    IN  /\ from[2] = 2 => last = (IF isLeapYear(from[1]) THEN 29 ELSE 28)
        /\ IF FitsInt32(end)
           THEN /\ result.kind = "value"
                /\ I64(result.value) = end
                /\ DateToString(result.value) = <<from[1], from[2], last>>
                /\ result.value >= input.date
           ELSE result.kind = "error"
        /\ pc = "done2" => result2 = result

C8_Witness ==
  /\ pc = "done2" /\ input.fn = "last_day"
  /\ InputFields[2] = 2 /\ isLeapYear(InputFields[1])
  /\ InputFields[3] < 29
  /\ DateToString(result.value)[3] = 29
  /\ result2 = result

\* C9: an Overflow error of make_date, last_day or add_months carries the
\* name of the function and the input values of the call: year, month, day
\* for make_date; year, month, day-of-month of the input date for last_day;
\* the input date and the number of months for add_months.
C9_OverflowNamesInputs ==
  (pc = "done" /\ result.kind = "error") =>
    /\ result.fn = input.fn
    /\ input.fn = "make_date" =>
         result.args = <<input.year, input.month, input.day>>
    /\ input.fn = "last_day" => result.args = InputFields
    /\ input.fn = "add_months" =>
         result.args = <<InputFields, input.numMonths>>

-----------------------------------------------------------------------------
(* Properties of the unix_timestamp adapters *)

WithFormatReady == kind = "withFormat" /\ apc = "initialized"

Compiles(pattern) == buildJodaDateTimeFormatter(pattern) # VeloxUserError

\* What parsing `in` with `pattern` yields for this instance's session zone:
\* null on InvalidFormat or ParseError, else the UTC seconds.
ExpectedRet(pattern, in) ==
  IF ~Compiles(pattern)
  THEN RowNull
  ELSE LET r == DateTimeFormatter_parse(buildJodaDateTimeFormatter(pattern), in)
       IN  IF r = VeloxUserError
           THEN RowNull
           ELSE RowValue(r.timestamp
                           - OffsetSeconds(IF sessionTzID_ = Null
                                           THEN 0 ELSE sessionTzID_.id))

\* C5: after initialize with a constant format that fails to compile, every
\* row call returns null, whatever its input and format, and no row call
\* compiles a pattern or parses.
C5_InvalidConstFormatStaysNull ==
  (WithFormatReady /\ constArg # Null /\ ~Compiles(constArg.tokens)) =>
    /\ invalidFormat_
    /\ compiles = 1
    /\ parses = 0
    /\ \A i \in 1..Len(rows) :
         rows[i].ret = RowNull /\ rows[i].built = <<>> /\ rows[i].used = <<>>

C5_Witness ==
  /\ WithFormatReady /\ constArg # Null /\ ~Compiles(constArg.tokens)
  /\ Len(rows) >= 2
  /\ \A i \in 1..Len(rows) :
       ExpectedRet(rows[i].format, rows[i].input) # RowNull
  /\ rows[2].ret = RowNull

\* C6: with a constant format the pattern is compiled once, at initialize,
\* and every row that parses uses that compiled pattern; with a
\* non-constant format each row call compiles once, its own format.
C6_CompileOncePerBatchOrRow ==
  WithFormatReady =>
    IF constArg # Null
    THEN /\ compiles = 1
         /\ isConstFormat_
         /\ \A i \in 1..Len(rows) :
              /\ rows[i].built = <<>>
              /\ rows[i].used \in
                   {<<>>, <<buildJodaDateTimeFormatter(constArg.tokens)>>}
              /\ Compiles(constArg.tokens) => rows[i].used # <<>>
    ELSE /\ compiles = Len(rows)
         /\ \A i \in 1..Len(rows) : rows[i].built = <<rows[i].format>>

C6_Witness ==
  /\ WithFormatReady /\ constArg # Null /\ Compiles(constArg.tokens)
  /\ Len(rows) >= 2
  /\ rows[1].format # constArg.tokens /\ rows[2].format # rows[1].format
  /\ rows[1].ret.kind = "value" /\ rows[2].ret.kind = "value"
  /\ compiles = 1 /\ parses = 2

\* C7: every row call of unix_timestamp(string) and
\* unix_timestamp(string, format) ends with a value or with null, never with
\* an InvalidFormat or ParseError leaving the call, and each row's outcome is
\* the one its own input (and the format in force) gives, whatever earlier
\* rows returned.
C7_SoftFailuresBecomeNull ==
  (kind # "none" /\ apc = "initialized") =>
    \A i \in 1..Len(rows) :
      /\ rows[i].ret.kind \in {"value", "null"}
      /\ rows[i].ret =
           (IF kind = "parse"
            THEN ExpectedRet(kDefaultFormat_, rows[i].input)
            ELSE IF constArg # Null
            THEN ExpectedRet(constArg.tokens, rows[i].input)
            ELSE ExpectedRet(rows[i].format, rows[i].input))

C7_Witness ==
  /\ kind = "parse" /\ apc = "initialized"
  /\ Len(rows) >= 2
  /\ rows[1].ret = RowNull
  /\ rows[2].ret.kind = "value"

\* C10: with a non-constant format no row call sets invalidFormat_; a row
\* whose format fails to compile is null and parses nothing, and every other
\* row is parsed with the pattern compiled from its own format.
C10_RowFailureNotSticky ==
  (WithFormatReady /\ constArg = Null) =>
    /\ ~invalidFormat_
    /\ ~isConstFormat_
    /\ \A i \in 1..Len(rows) :
         /\ ~rows[i].invalidAfter
         /\ IF Compiles(rows[i].format)
            THEN /\ rows[i].used =
                      <<buildJodaDateTimeFormatter(rows[i].format)>>
                 /\ rows[i].ret = ExpectedRet(rows[i].format, rows[i].input)
            ELSE rows[i].used = <<>> /\ rows[i].ret = RowNull

C10_Witness ==
  /\ WithFormatReady /\ constArg = Null
  /\ Len(rows) >= 2
  /\ ~Compiles(rows[1].format) /\ rows[1].ret = RowNull
  /\ rows[2].format # rows[1].format
  /\ rows[2].ret.kind = "value"

====
